---- MODULE Spec2Model ----
(***************************************************************************)
(* statline-bq: one dataset run of the CBS OData -> parquet -> GCS -> BQ   *)
(* pipeline (src/statline_bq/main.py), the helpers it calls                *)
(* (src/statline_bq/utils.py) and the @logdec decorator                    *)
(* (src/statline_bq/log.py).                                               *)
(*                                                                         *)
(* Python's None is the string "None"; an exception raised by a helper is  *)
(* the string "raise".  A function decorated with @logdec turns every      *)
(* exception raised in its body into the return value None.                *)
(***************************************************************************)
EXTENDS Integers, Sequences, FiniteSets, TLC

None == "None"
Raise == "raise"

\* The dataset id the runs are about.
DatasetId == "83583NED"

\* Number of successive calls of main() in one behaviour.
MaxRuns == 2

\* Dates as strftime('%Y%m%d') strings, in chronological (= lexicographic) order.
DateOrder == <<"20201104", "20201125">>
PrevDate == DateOrder[1]
Today == DateOrder[2]

DateIndex(d) == CHOOSE i \in 1..Len(DateOrder) : DateOrder[i] = d

\* max() over a non-empty set of date strings
MaxDate(S) == CHOOSE d \in S : \A e \in S : DateIndex(e) <= DateIndex(d)

\* A row count that is None ("n_records": None of a non-main table)
NoCount == 0 - 1

----------------------------------------------------------------------------
(* utils.py: pure helpers *)

\* str.lower() on the values of gcp_env in use
lower(s) ==
    CASE s = "DEV" -> "dev"
      [] s = "Test" -> "test"
      [] s = "PROD" -> "prod"
      [] s = "FOO" -> "foo"
      [] OTHER -> s

\* check_gcp_env buggy variant: every value is accepted
check_gcp_env_any(gcp_env) == "True"

\* check_gcp_env: True for a permitted tier, ValueError otherwise
check_gcp_env(gcp_env) ==
    IF gcp_env \notin {"dev", "test", "prod"} THEN Raise ELSE "True"

\* The outcome of requests.get on the v4 root: a status code, or a
\* connection failure (requests raises).
ProbeOutcomes == {"200", "404", "503", "ConnectionError"}

\* check_v4 buggy variant: the probe is made for a third-party dataset too
check_v4_probe_all(third_party, probe) ==
    IF probe = "ConnectionError" THEN Raise
    ELSE IF probe = "200" THEN "v4" ELSE "v3"

\* check_v4(id, third_party); probe is what requests.get does
check_v4(third_party, probe) ==
    IF third_party THEN "v3"
    ELSE IF probe = "ConnectionError" THEN Raise
    ELSE IF probe = "200" THEN "v4" ELSE "v3"

\* cbs_limit / trailing_zeros of generate_table_urls
cbs_limit(odata_version) == IF odata_version = "v3" THEN 10000 ELSE 100000
trailing_zeros(odata_version) == IF odata_version = "v3" THEN 4 ELSE 5

RECURSIVE Pow10(_)
Pow10(k) == IF k = 0 THEN 1 ELSE 10 * Pow10(k - 1)

\* A table URL is <<table key, $skip offset>>; the base URL carries no $skip,
\* which the server reads as offset 0.
\* generate_table_urls buggy variant: no page for the remainder rows
generate_table_urls_floor(key, n_records, odata_version) ==
    IF n_records # NoCount
    THEN [i \in 1..(n_records \div cbs_limit(odata_version)) |->
              <<key, (i - 1) * Pow10(trailing_zeros(odata_version))>>]
    ELSE << <<key, 0>> >>

\* generate_table_urls(base_url, n_records, odata_version)
generate_table_urls(key, n_records, odata_version) ==
    IF n_records # NoCount
    THEN << <<key, 0>> >> \o
         [i \in 1..(n_records \div cbs_limit(odata_version)) |->
              <<key, i * Pow10(trailing_zeros(odata_version))>>]
    ELSE << <<key, 0>> >>

\* The records get_metadata_cbs / get_metadata_gcp hand back: a dict with its
\* "Modified" value (None when the key is absent) and the main table's row
\* count, Python's None, or an exception.
MetaDict(modified, count) == [kind |-> "dict", Modified |-> modified, Count |-> count]
MetaNone == [kind |-> "None", Modified |-> None, Count |-> NoCount]
MetaRaise == [kind |-> "raise", Modified |-> None, Count |-> NoCount]

\* Python truthiness of an optional string
Truthy(x) == x # None /\ x # ""

\* get_gcp_modified(gcp_meta, force)
get_gcp_modified(gcp_meta, force) ==
    IF ~force
    THEN (IF gcp_meta.kind = "None" THEN None ELSE gcp_meta.Modified)
    ELSE None

\* utils.skip_dataset(cbs_modified, gcp_modified, force)
utils_skip_dataset(cbs_modified, gcp_modified, force) ==
    IF (cbs_modified = None \/ cbs_modified = gcp_modified) /\ ~force
    THEN TRUE ELSE FALSE

\* main.skip_dataset buggy variant: the force test is missing
main_skip_dataset_noforce(force, source_meta, gcp_meta) ==
    IF source_meta.kind = "raise" \/ gcp_meta.kind = "None" THEN None
    ELSE IF source_meta.Modified = gcp_meta.Modified THEN "True" ELSE "False"

\* main.skip_dataset buggy variant: the comparison is inverted
main_skip_dataset_differ(force, source_meta, gcp_meta) ==
    IF force THEN "False"
    ELSE IF source_meta.kind = "raise" \/ gcp_meta.kind = "None" THEN None
    ELSE IF ~(Truthy(source_meta.Modified) \/ Truthy(gcp_meta.Modified)) THEN "False"
    ELSE IF source_meta.Modified # gcp_meta.Modified THEN "True"
    ELSE "False"

\* main.skip_dataset under @logdec: "True", "False", or None when the body
\* raised (get_metadata_cbs raised, or gcp_meta is None and .get fails)
main_skip_dataset(force, source_meta, gcp_meta) ==
    IF force THEN "False"
    ELSE IF source_meta.kind = "raise" THEN None
    ELSE IF gcp_meta.kind = "None" THEN None
    ELSE LET cbs_modified == source_meta.Modified
             gcp_modified == gcp_meta.Modified
         IN  IF ~(Truthy(cbs_modified) \/ Truthy(gcp_modified)) THEN "False"
             ELSE IF cbs_modified = gcp_modified THEN "True"
             ELSE "False"

----------------------------------------------------------------------------
(* The source (CBS) side of one dataset, fixed during a behaviour *)

\* Manifest entries that tables_to_parquet never fetches
MetadataTables == {"Properties", "TableInfos", "UntypedDataSet"}
MainTables == {"TypedDataSet", "Observations"}

\* The table lists get_urls can hand back, in dict order
Manifests(v) ==
    IF v = "v3"
    THEN { <<"TableInfos", "UntypedDataSet", "TypedDataSet", "DataProperties",
             "CategoryGroups">>,
           <<"CategoryGroups", "DataProperties", "TypedDataSet">> }
    ELSE { <<"MeasureCodes", "Observations", "Properties">>,
           <<"Observations", "MeasureCodes", "Properties">> }

\* Tables whose "value" list may come back empty (84799NED_CategoryGroups)
MaybeEmpty == {"CategoryGroups", "MeasureCodes"}

\* Row counts of the main table (RecordCount / ObservationCount)
RowCounts(v) == {1, cbs_limit(v)}

Worlds ==
    { w \in [v4 : BOOLEAN, Modified : {None, "m1"},
             tables : Manifests("v3") \cup Manifests("v4"),
             empty : SUBSET MaybeEmpty,
             n : RowCounts("v3") \cup RowCounts("v4")] :
        LET v == IF w.v4 THEN "v4" ELSE "v3" IN
        /\ w.tables \in Manifests(v)
        /\ w.n \in RowCounts(v)
        /\ Cardinality(w.empty) <= 1
        /\ w.empty \subseteq {w.tables[i] : i \in 1..Len(w.tables)} }

WorldVersion(w) == IF w.v4 THEN "v4" ELSE "v3"

\* What requests.get on the v4 root can do for this dataset
ProbeReplies(w) ==
    IF w.v4 THEN {"200", "ConnectionError"} ELSE {"404", "503", "ConnectionError"}

\* get_metadata_cbs(id, third_party, odata_version); fault: the request fails
get_metadata_cbs(w, third_party, odata_version, fault) ==
    IF odata_version = "v4" /\ third_party THEN MetaRaise
    ELSE IF fault THEN MetaRaise
    ELSE MetaDict(w.Modified, w.n)

\* get_main_table_shape(metadata)["n_records" | "n_observations"]
get_main_table_shape(metadata, field, odata_version) ==
    IF field = "n_records"
    THEN (IF odata_version = "v3" THEN metadata.Count ELSE NoCount)
    ELSE (IF odata_version = "v4" THEN metadata.Count ELSE NoCount)

----------------------------------------------------------------------------
(* File names, blobs, catalog *)

\* "{source}.{odata_version}.{id}_{key}.{ext}" as its dot-separated parts
FileName(source, odata_version, key, ext) ==
    [source |-> source, ver |-> odata_version, idkey |-> <<DatasetId, key>>,
     ext |-> ext]

\* str(name).split(".")[2] in gcs_to_gbq
TableId(name) == name.idkey

\* gcs_folder of upload_to_gcs: "{source}/{odata_version}/{id}/{YYYYMMDD}"
GcsFolder(source, odata_version) == <<source, odata_version, DatasetId, Today>>

BlobsUnder(store, source, odata_version) ==
    {b \in store : b.folder[1] = source /\ b.folder[2] = odata_version
                   /\ b.folder[3] = DatasetId}

\* get_latest_folder + get_metadata_gcp: the _Metadata.json of the latest
\* dated folder, None when there is no folder or no such blob
get_metadata_gcp(store, source, odata_version) ==
    LET mine == BlobsUnder(store, source, odata_version) IN
    IF mine = {} THEN MetaNone
    ELSE LET max_date == MaxDate({b.folder[4] : b \in mine})
             meta == {b \in mine : b.folder[4] = max_date
                         /\ b.name = FileName(source, odata_version, "Metadata", "json")}
         IN  IF meta = {} THEN MetaNone
             ELSE MetaDict((CHOOSE b \in meta : TRUE).content, NoCount)

\* The state of the bucket and of the catalog left by an earlier publication
PriorPublications == {"absent", None, "m1", "m2"}

PriorBlobs(prior, source, v) ==
    IF prior = "absent" THEN {}
    ELSE { [folder |-> <<source, v, DatasetId, PrevDate>>,
            name |-> FileName(source, v, "Metadata", "json"), content |-> prior],
           [folder |-> <<source, v, DatasetId, PrevDate>>,
            name |-> FileName(source, v, "Old", "parquet"), content |-> "data"] }

PriorCatalog(prior) ==
    IF prior = "absent" THEN [exists |-> FALSE, tables |-> {}, described |-> {}]
    ELSE [exists |-> TRUE, tables |-> {<<DatasetId, "Old">>}, described |-> {}]

----------------------------------------------------------------------------
VARIABLES
    args,           \* the arguments of main()
    cbs,            \* the dataset at the source
    run,            \* number of the current call of main()
    pc,             \* where the current call is
    odata_version,  \* result of check_v4
    ret,            \* what main() returned
    status,         \* tag of the outcome: what the log says happened
    failedAt,       \* the step whose exception ended the call
    envFault,       \* an external request of this call failed
    atSkip,         \* the dates the skip check met
    calls,          \* requests issued by the current call
    todo,           \* tables_to_parquet: tables still to iterate over
    files_parquet,  \* tables_to_parquet: the result set
    pq_path,        \* tables_to_parquet: local variable pq_path
    schema,         \* tables_to_parquet: local variable schema
    disk,           \* local directory tree of the dataset
    gcs,            \* blobs in the bucket
    bq,             \* the catalog dataset {source}_{version}_{id}
    hist,           \* bucket and catalog at the start and at the end of each call
    call,           \* a helper called on its own: its name and arguments
    result,         \* what that helper returned
    bag             \* the dask bag of one table: its page fetches, its records

vars == <<args, cbs, run, pc, odata_version, ret, status, failedAt, envFault,
          atSkip, calls, todo, files_parquet, pq_path, schema, disk, gcs, bq, hist,
          call, result, bag>>

Args == [third_party : BOOLEAN, source : {"cbs", "iv3"}, gcp_env : {"DEV", "foo"},
         endpoint : {"bq", "gcs", "local", "ftp"}, force : BOOLEAN]

NoCalls == [probe |-> 0, meta |-> 0, urls |-> 0, fetch |-> 0, upload |-> 0, catalog |-> 0]
EmptyDisk == [dir |-> FALSE, pq |-> {}, ndjson |-> {}]
Unbound == "unbound"
\* pq_path: <<>> while never assigned, <<file>> once assigned
NoFile == <<>>
NoStage == <<None, None>>
NotRead == [cbs |-> "notread", gcp |-> "notread"]

\* local state of a call that has not started its work
FreshCall ==
    /\ pc = "main"
    /\ odata_version = None
    /\ ret = "pending"
    /\ status = "running"
    /\ failedAt = NoStage
    /\ envFault = FALSE
    /\ atSkip = NotRead
    /\ calls = NoCalls
    /\ todo = <<>>
    /\ files_parquet = {}
    /\ pq_path = NoFile
    /\ schema = Unbound

\* No helper is called on its own
NoCall == [fn |-> None]

\* No page fetch has been handed to dask
NoBag == [urls |-> <<>>, paths |-> <<>>, done |-> <<>>]

Snapshot(st, fault, store, cat) ==
    [status |-> st, envFault |-> fault, gcs |-> store, bq |-> cat]

Init ==
    /\ args \in Args
    /\ cbs \in Worlds
    /\ args.third_party => ~cbs.v4
    /\ run = 1
    /\ FreshCall
    /\ disk = EmptyDisk
    /\ \E prior \in PriorPublications :
         /\ gcs = PriorBlobs(prior, args.source, WorldVersion(cbs))
         /\ bq = PriorCatalog(prior)
    /\ hist = <<Snapshot("init", FALSE, gcs, bq)>>
    /\ call = NoCall
    /\ result = <<>>
    /\ bag = NoBag

----------------------------------------------------------------------------
(* main.main *)

\* The call ends: main() hands back value
Return(value, st, stage, fault, store, cat) ==
    /\ pc' = "returned"
    /\ ret' = value
    /\ status' = st
    /\ failedAt' = stage
    /\ envFault' = fault
    /\ hist' = Append(hist, Snapshot(st, fault, store, cat))

\* @logdec buggy variant: the exception is handed on to the caller
Fail_raise(stage, fault) ==
    Return(Raise, "Failed", stage, envFault \/ fault, gcs, bq)

\* @logdec buggy variant: the exception is swallowed and the call reports success
Fail_done(stage, fault) ==
    Return("local_folder", "Done", stage, envFault \/ fault, gcs, bq)

\* An exception reaches main's @logdec (directly, or as the TypeError of
\* unpacking the None a decorated callee returned): main returns None.
Fail(stage, fault) ==
    Return(None, "Failed", stage, envFault \/ fault, gcs, bq)

\* main.py 729-734: argument checks
CheckArgs ==
    /\ pc = "main"
    /\ IF args.third_party /\ args.source = "cbs"
       THEN Fail(<<"source", None>>, FALSE)
       ELSE IF check_gcp_env(lower(args.gcp_env)) = Raise
       THEN Fail(<<"check_gcp_env", None>>, FALSE)
       ELSE /\ pc' = "check_v4"
            /\ UNCHANGED <<ret, status, failedAt, envFault, hist>>
    /\ UNCHANGED <<bag, call, result, args, cbs, run, odata_version, atSkip, calls, todo,
                   files_parquet, pq_path, schema, disk, gcs, bq>>

\* main.py 735: odata_version = check_v4(id, third_party)
CheckV4 ==
    /\ pc = "check_v4"
    /\ \E probe \in ProbeReplies(cbs) :
         LET v == check_v4(args.third_party, probe) IN
         /\ calls' = IF args.third_party THEN calls
                     ELSE [calls EXCEPT !.probe = @ + 1]
         /\ IF v = Raise
            THEN /\ Fail(<<"check_v4", None>>, TRUE)
                 /\ UNCHANGED odata_version
            ELSE /\ odata_version' = v
                 /\ pc' = "skip_dataset"
                 /\ UNCHANGED <<ret, status, failedAt, envFault, hist>>
    /\ UNCHANGED <<bag, call, result, args, cbs, run, atSkip, todo, files_parquet, pq_path,
                   schema, disk, gcs, bq>>

\* main.py 737-754: skip_dataset(...) and endpoint != "local"
SkipCheck ==
    /\ pc = "skip_dataset"
    /\ \E fault \in BOOLEAN :
         LET source_meta == get_metadata_cbs(cbs, args.third_party, odata_version, fault)
             gcp_meta == get_metadata_gcp(gcs, args.source, odata_version)
             skip == main_skip_dataset(args.force, source_meta, gcp_meta)
         IN
         /\ args.force => ~fault
         /\ atSkip' = [cbs |-> IF source_meta.kind = "dict"
                                THEN source_meta.Modified ELSE None,
                       gcp |-> IF gcp_meta.kind = "dict"
                                THEN gcp_meta.Modified ELSE None]
         /\ calls' = IF args.force THEN calls ELSE [calls EXCEPT !.meta = @ + 1]
         /\ IF skip = "True" /\ args.endpoint # "local"
            THEN Return(None, "Skipped", NoStage, fault, gcs, bq)
            ELSE /\ pc' = "dispatch"
                 /\ envFault' = fault
                 /\ UNCHANGED <<ret, status, failedAt, hist>>
    /\ UNCHANGED <<bag, call, result, args, cbs, run, odata_version, todo, files_parquet, pq_path,
                   schema, disk, gcs, bq>>

\* endpoint dispatch buggy variant: an unknown endpoint is served like "bq"
Dispatch_any ==
    /\ pc = "dispatch"
    /\ pc' = "to_local"
    /\ UNCHANGED <<ret, status, failedAt, envFault, hist>>
    /\ UNCHANGED <<bag, call, result, args, cbs, run, odata_version, atSkip, calls, todo,
                   files_parquet, pq_path, schema, disk, gcs, bq>>

\* main.py 755-785: the endpoint selects the callee
Dispatch ==
    /\ pc = "dispatch"
    /\ IF args.endpoint \in {"bq", "gcs", "local"}
       THEN /\ pc' = "to_local"
            /\ UNCHANGED <<ret, status, failedAt, envFault, hist>>
       ELSE Fail(<<"endpoint", None>>, envFault)
    /\ UNCHANGED <<bag, call, result, args, cbs, run, odata_version, atSkip, calls, todo,
                   files_parquet, pq_path, schema, disk, gcs, bq>>

----------------------------------------------------------------------------
(* cbsodata_to_local and tables_to_parquet *)

Min(a, b) == IF a < b THEN a ELSE b
Max(a, b) == IF a > b THEN a ELSE b

\* Number of records the server answers a table URL with: at most one page
\* of cbs_limit rows of the main table from the $skip offset on; a non-main
\* table is one page, empty for a table of w.empty.
RowsFrom(skip, n, limit) == Max(0, Min(limit, n - skip))

PageRows(url, w, v) ==
    IF url[1] \in MainTables
    THEN RowsFrom(url[2], w.n, cbs_limit(v))
    ELSE IF url[1] \in w.empty THEN 0 ELSE 1

NoPath == <<>>

\* url_to_ndjson: the page file written, None for an empty "value" list.
\* The file is page_{int(skip) // 10000}.ndjson, page_0 without $skip.
url_to_ndjson(url, rows) ==
    IF rows > 0 THEN <<url[1], url[2] \div 10000>> ELSE NoPath

\* any(ndjsons_paths)
AnyPath(paths) == \E i \in 1..Len(paths) : paths[i] # NoPath

\* The first page convert_ndjsons_to_parquet cannot read: a None in the
\* list, or the page whose parsing fails (faultAt, 0 for none); 0 if all
\* pages convert.
FirstBad(files, faultAt) ==
    LET bad == {i \in 1..Len(files) : files[i] = NoPath \/ i = faultAt} IN
    IF bad = {} THEN 0 ELSE CHOOSE i \in bad : \A j \in bad : i <= j

\* convert_ndjsons_to_parquet(files, file_name, out_dir, schema):
\* ok - it returned pq_file; wrote - the ParquetWriter created pq_file;
\* consumed - the page files it removed.
convert_ndjsons_to_parquet(files, schema_arg, faultAt) ==
    LET bad == FirstBad(files, faultAt) IN
    IF schema_arg = None /\ bad = 1
    THEN [ok |-> FALSE, wrote |-> FALSE, consumed |-> {}]
    ELSE IF bad # 0
    THEN [ok |-> FALSE, wrote |-> TRUE,
          consumed |-> {files[i] : i \in 1..(bad - 1)}]
    ELSE [ok |-> TRUE, wrote |-> TRUE,
          consumed |-> {files[i] : i \in 1..Len(files)}]

\* The keys tables_to_parquet iterates over (utils.py 1331-1340)
\* loop keys buggy variant: the metadata-only entries are not left out
FetchedKeys_all(tables) == tables

RECURSIVE FetchedKeys(_)
FetchedKeys(tables) ==
    IF tables = <<>> THEN <<>>
    ELSE IF Head(tables) \in MetadataTables THEN FetchedKeys(Tail(tables))
    ELSE <<Head(tables)>> \o FetchedKeys(Tail(tables))

\* main.py 208-222: get_urls, get_metadata_cbs, create_named_dir
ToLocalBegin ==
    /\ pc = "to_local"
    /\ \E urlsFault \in BOOLEAN, metaFault \in BOOLEAN :
         LET source_meta ==
                 get_metadata_cbs(cbs, args.third_party, odata_version, metaFault)
         IN
         /\ urlsFault => ~metaFault
         /\ calls' = [calls EXCEPT !.urls = @ + 1,
                                   !.meta = IF urlsFault THEN @ ELSE @ + 1]
         /\ IF urlsFault
            THEN /\ Fail(<<"get_urls", None>>, TRUE)
                 /\ UNCHANGED <<todo, files_parquet, pq_path, schema, disk>>
            ELSE IF source_meta.kind = "raise"
            THEN /\ Fail(<<"get_metadata_cbs", None>>, TRUE)
                 /\ UNCHANGED <<todo, files_parquet, pq_path, schema, disk>>
            ELSE /\ disk' = [disk EXCEPT !.dir = TRUE]
                 /\ todo' = FetchedKeys(cbs.tables)
                 /\ files_parquet' = {}
                 /\ pq_path' = NoFile
                 /\ schema' = Unbound
                 /\ pc' = IF FetchedKeys(cbs.tables) = <<>>
                          THEN "finish_local" ELSE "tables"
                 /\ UNCHANGED <<ret, status, failedAt, envFault, hist>>
    /\ UNCHANGED <<bag, call, result, args, cbs, run, odata_version, atSkip, gcs, bq>>

\* utils.py 1331-1406: one iteration of the loop of tables_to_parquet
TableStep ==
    /\ pc = "tables"
    /\ todo # <<>>
    /\ LET key == Head(todo)
           source_meta == get_metadata_cbs(cbs, args.third_party, odata_version, FALSE)
           n == IF key \in MainTables
                THEN get_main_table_shape(source_meta,
                         IF odata_version = "v3" THEN "n_records" ELSE "n_observations",
                         odata_version)
                ELSE NoCount
           table_urls == generate_table_urls(key, n, odata_version)
           ndjsons_paths == [i \in 1..Len(table_urls) |->
                                url_to_ndjson(table_urls[i],
                                              PageRows(table_urls[i], cbs, odata_version))]
           staged == {ndjsons_paths[i] : i \in 1..Len(table_urls)} \ {NoPath}
           pq_file == FileName(args.source, odata_version, key, "parquet")
           wantsSchema == key \in MainTables /\ odata_version = "v3"
       IN
       \E schemaFault \in BOOLEAN, fetchFault \in 0..Len(table_urls),
          faultAt \in 0..Len(table_urls) :
         LET schema1 == IF key \in MainTables
                        THEN (IF odata_version = "v3" THEN "explicit" ELSE schema)
                        ELSE None
             conv == convert_ndjsons_to_parquet(ndjsons_paths, schema1, faultAt)
             pq_path1 == IF AnyPath(ndjsons_paths) THEN <<pq_file>> ELSE pq_path
         IN
         /\ schemaFault => wantsSchema /\ fetchFault = 0 /\ faultAt = 0
         /\ fetchFault # 0 => faultAt = 0
         /\ faultAt # 0 => AnyPath(ndjsons_paths) /\ schema1 # Unbound
         /\ IF schemaFault
            THEN \* get_schema_cbs raises
                 /\ Fail(<<"get_schema_cbs", key>>, TRUE)
                 /\ UNCHANGED <<calls, todo, files_parquet, pq_path, schema, disk>>
            ELSE IF fetchFault # 0
            THEN \* a page request raises; the other pages may have been written
                 /\ \E written \in SUBSET (staged \ {ndjsons_paths[fetchFault]}) :
                      disk' = [disk EXCEPT !.ndjson = @ \cup written]
                 /\ calls' = [calls EXCEPT !.fetch = @ + Len(table_urls)]
                 /\ Fail(<<"fetch", key>>, TRUE)
                 /\ UNCHANGED <<todo, files_parquet, pq_path, schema>>
            ELSE IF AnyPath(ndjsons_paths) /\ schema1 = Unbound
            THEN \* schema=schema reads a local variable never assigned
                 /\ disk' = [disk EXCEPT !.ndjson = @ \cup staged]
                 /\ calls' = [calls EXCEPT !.fetch = @ + Len(table_urls)]
                 /\ Fail(<<"schema_unbound", key>>, FALSE)
                 /\ UNCHANGED <<todo, files_parquet, pq_path, schema>>
            ELSE IF AnyPath(ndjsons_paths) /\ ~conv.ok
            THEN \* convert_ndjsons_to_parquet raises
                 /\ disk' = [disk EXCEPT
                               !.ndjson = (@ \cup staged) \ conv.consumed,
                               !.pq = IF conv.wrote THEN @ \cup {pq_file} ELSE @]
                 /\ calls' = [calls EXCEPT !.fetch = @ + Len(table_urls)]
                 /\ Fail(<<"convert", key>>, faultAt # 0)
                 /\ UNCHANGED <<todo, files_parquet, pq_path, schema>>
            ELSE IF pq_path1 = NoFile
            THEN \* "if pq_path:" reads a local variable never assigned
                 /\ calls' = [calls EXCEPT !.fetch = @ + Len(table_urls)]
                 /\ Fail(<<"pq_path_unbound", key>>, FALSE)
                 /\ UNCHANGED <<todo, files_parquet, pq_path, schema, disk>>
            ELSE /\ disk' = [disk EXCEPT
                               !.pq = IF AnyPath(ndjsons_paths)
                                      THEN @ \cup {pq_file} ELSE @]
                 /\ calls' = [calls EXCEPT !.fetch = @ + Len(table_urls)]
                 /\ schema' = schema1
                 /\ pq_path' = pq_path1
                 /\ files_parquet' = files_parquet \cup {pq_path1[1]}
                 /\ todo' = Tail(todo)
                 /\ pc' = IF Tail(todo) = <<>> THEN "finish_local" ELSE "tables"
                 /\ UNCHANGED <<ret, status, failedAt, envFault, hist>>
    /\ UNCHANGED <<bag, call, result, args, cbs, run, odata_version, atSkip, gcs, bq>>

\* get_column_descriptions(urls, odata_version): None for v4; for v3 the
\* DataProperties table is requested (KeyError when the manifest has none)
get_column_descriptions(tables, v, fault) ==
    IF v = "v4" THEN None
    ELSE IF "DataProperties" \notin {tables[i] : i \in 1..Len(tables)} THEN Raise
    ELSE IF fault THEN Raise
    ELSE "dict"

\* dict_to_json_file: "{source}.{odata_version}.{id}_{suffix}.json" in dir
dict_to_json_file(source, v, suffix) == FileName(source, v, suffix, "json")

\* main.py 247-264 buggy variant: no ColDescriptions file for a v4 dataset
Sidecars_v3_only(source, v) ==
    IF v = "v3"
    THEN {dict_to_json_file(source, v, "ColDescriptions"),
          dict_to_json_file(source, v, "Metadata")}
    ELSE {dict_to_json_file(source, v, "Metadata")}

\* main.py 247-264: the two json files written next to the parquet files,
\* whatever col_descriptions is (json.dumps(None) is "null")
Sidecars(source, v) ==
    {dict_to_json_file(source, v, "ColDescriptions"),
     dict_to_json_file(source, v, "Metadata")}

\* main.py 233-265: DataProperties columns, ColDescriptions.json, Metadata.json
ToLocalFinish ==
    /\ pc = "finish_local"
    /\ \E fault \in BOOLEAN :
         LET col_descriptions == get_column_descriptions(cbs.tables, odata_version, fault)
         IN
         /\ fault => odata_version = "v3"
         /\ IF col_descriptions = Raise
            THEN /\ Fail(<<"get_column_descriptions", None>>, fault)
                 /\ UNCHANGED disk
            ELSE /\ disk' = [disk EXCEPT !.pq = @ \cup Sidecars(args.source, odata_version)]
                 /\ pc' = IF args.endpoint = "local" THEN "main_return" ELSE "upload"
                 /\ UNCHANGED <<ret, status, failedAt, envFault, hist>>
    /\ UNCHANGED <<bag, call, result, args, cbs, run, odata_version, atSkip, calls, todo,
                   files_parquet, pq_path, schema, gcs, bq>>

----------------------------------------------------------------------------
(* upload_to_gcs *)

\* What a local file holds, as far as a later run reads it back
FileContent(name, w) ==
    IF name.idkey[2] = "Metadata" THEN w.Modified
    ELSE IF name.idkey[2] = "ColDescriptions" /\ name.ver = "v4" THEN "null"
    ELSE "data"

\* upload_to_gcs buggy variant: only the parquet files are sent
UploadFiles_parquet_only(store, folder, names, w) ==
    {b \in store : ~(b.folder = folder /\ b.name \in names /\ b.name.ext = "parquet")}
    \cup {[folder |-> folder, name |-> nm, content |-> FileContent(nm, w)] :
              nm \in {x \in names : x.ext = "parquet"}}

\* blob.upload_from_filename for each name: a blob of the same key is replaced
UploadFiles(store, folder, names, w) ==
    {b \in store : ~(b.folder = folder /\ b.name \in names)}
    \cup {[folder |-> folder, name |-> nm, content |-> FileContent(nm, w)] : nm \in names}

\* main.py 401-408 / 547-554: every file of listdir(pq_dir) is uploaded
Upload ==
    /\ pc = "upload"
    /\ \E fault \in BOOLEAN :
       \E sent \in IF fault THEN {{}} \cup {{f} : f \in disk.pq} ELSE {disk.pq} :
         /\ gcs' = UploadFiles(gcs, GcsFolder(args.source, odata_version), sent, cbs)
         /\ calls' = [calls EXCEPT !.upload = @ + Cardinality(sent)]
         /\ IF fault
            THEN Return(None, "Failed", <<"upload_to_gcs", None>>, TRUE, gcs', bq)
            ELSE /\ pc' = IF args.endpoint = "gcs" THEN "cleanup" ELSE "gbq_check"
                 /\ UNCHANGED <<ret, status, failedAt, envFault, hist>>
    /\ UNCHANGED <<bag, call, result, args, cbs, run, odata_version, atSkip, todo, files_parquet,
                   pq_path, schema, disk, bq>>

----------------------------------------------------------------------------
(* gcs_to_gbq *)

\* check_bq_dataset: the dataset exists
check_bq_dataset(cat) == cat.exists

\* delete_bq_dataset buggy variant: the tables of the dataset are kept
delete_bq_dataset_keep(cat) == [cat EXCEPT !.exists = FALSE]

\* delete_bq_dataset: delete_dataset(delete_contents=True, not_found_ok=True)
delete_bq_dataset(cat) == [exists |-> FALSE, tables |-> {}, described |-> {}]

\* create_bq_dataset: create_dataset; a Conflict is logged and swallowed
create_bq_dataset(cat) == IF cat.exists THEN cat ELSE [cat EXCEPT !.exists = TRUE]

\* utils.py 1660-1675: create_table(exists_ok=True) per file name
create_tables(cat, file_names) ==
    [cat EXCEPT !.tables = @ \cup {TableId(nm) : nm \in file_names}]

\* utils.py 1605-1636: description, check_bq_dataset, delete_bq_dataset
GbqDelete ==
    /\ pc = "gbq_check"
    /\ \E fault \in BOOLEAN :
         IF fault
         THEN /\ Fail(<<"gcs_to_gbq", "delete">>, TRUE)
              /\ UNCHANGED <<bq, calls>>
         ELSE /\ bq' = IF check_bq_dataset(bq) THEN delete_bq_dataset(bq) ELSE bq
              /\ calls' = [calls EXCEPT !.catalog = @ + 1]
              /\ pc' = "gbq_create"
              /\ UNCHANGED <<ret, status, failedAt, envFault, hist>>
    /\ UNCHANGED <<bag, call, result, args, cbs, run, odata_version, atSkip, todo, files_parquet,
                   pq_path, schema, disk, gcs>>

\* gcs_to_gbq buggy variant: the tables are not registered before the
\* columns are described
GbqCreate_no_tables ==
    /\ pc = "gbq_create"
    /\ bq' = create_bq_dataset(bq)
    /\ calls' = [calls EXCEPT !.catalog = @ + 1]
    /\ pc' = "describe"
    /\ UNCHANGED <<ret, status, failedAt, envFault, hist>>
    /\ UNCHANGED <<bag, call, result, args, cbs, run, odata_version, atSkip, todo, files_parquet,
                   pq_path, schema, disk, gcs>>

\* utils.py 1638-1646: create_bq_dataset
GbqCreate ==
    /\ pc = "gbq_create"
    /\ \E fault \in BOOLEAN :
         IF fault
         THEN /\ Fail(<<"gcs_to_gbq", "create">>, TRUE)
              /\ UNCHANGED <<bq, calls>>
         ELSE /\ bq' = create_bq_dataset(bq)
              /\ calls' = [calls EXCEPT !.catalog = @ + 1]
              /\ pc' = "gbq_tables"
              /\ UNCHANGED <<ret, status, failedAt, envFault, hist>>
    /\ UNCHANGED <<bag, call, result, args, cbs, run, odata_version, atSkip, todo, files_parquet,
                   pq_path, schema, disk, gcs>>

\* utils.py 1652-1676: one external table per name of file_names
GbqTables ==
    /\ pc = "gbq_tables"
    /\ \E fault \in BOOLEAN :
         IF fault \/ ~bq.exists
         THEN /\ Fail(<<"gcs_to_gbq", "tables">>, fault)
              /\ UNCHANGED <<bq, calls>>
         ELSE /\ bq' = create_tables(bq, files_parquet)
              /\ calls' = [calls EXCEPT !.catalog = @ + Cardinality(files_parquet)]
              /\ pc' = "describe"
              /\ UNCHANGED <<ret, status, failedAt, envFault, hist>>
    /\ UNCHANGED <<bag, call, result, args, cbs, run, odata_version, atSkip, todo, files_parquet,
                   pq_path, schema, disk, gcs>>

\* main.py 568-585: get_col_descs_from_gcs, bq_update_main_table_col_descriptions
Describe ==
    /\ pc = "describe"
    /\ \E fault \in BOOLEAN :
         LET main_ids == {t \in bq.tables : t[2] = "TypedDataSet"} IN
         IF fault
         THEN /\ Fail(<<"describe", None>>, TRUE)
              /\ UNCHANGED <<bq, calls>>
         ELSE /\ bq' = IF odata_version = "v3"
                       THEN [bq EXCEPT !.described = @ \cup main_ids] ELSE bq
              /\ calls' = IF odata_version = "v3" /\ main_ids # {}
                          THEN [calls EXCEPT !.catalog = @ + 1] ELSE calls
              /\ pc' = "cleanup"
              /\ UNCHANGED <<ret, status, failedAt, envFault, hist>>
    /\ UNCHANGED <<bag, call, result, args, cbs, run, odata_version, atSkip, todo, files_parquet,
                   pq_path, schema, disk, gcs>>

\* rmtree(pq_dir.parents[1]) buggy variant: only the parquet files go
rmtree_files(d) == [d EXCEPT !.pq = {}]

\* rmtree(pq_dir.parents[1]): the dataset's directory with all below it
rmtree(d) == EmptyDisk

\* main.py 410-413 / 587-590: remove the local files, return files_parquet
Cleanup ==
    /\ pc = "cleanup"
    /\ disk' = rmtree(disk)
    /\ pc' = "main_return"
    /\ UNCHANGED <<bag, call, result, args, cbs, run, odata_version, ret, status, failedAt, envFault,
                   atSkip, calls, todo, files_parquet, pq_path, schema, gcs, bq, hist>>

\* main.py 786-791: local_folder from files_parquet
MainReturn ==
    /\ pc = "main_return"
    /\ Return(IF files_parquet # {} THEN "local_folder" ELSE None,
              "Done", NoStage, envFault, gcs, bq)
    /\ UNCHANGED <<bag, call, result, args, cbs, run, odata_version, atSkip, calls, todo,
                   files_parquet, pq_path, schema, disk, gcs, bq>>

\* The caller calls main() again with the same arguments
NextRun ==
    /\ pc = "returned"
    /\ run < MaxRuns
    /\ run' = run + 1
    /\ pc' = "main"
    /\ odata_version' = None
    /\ ret' = "pending"
    /\ status' = "running"
    /\ failedAt' = NoStage
    /\ envFault' = FALSE
    /\ atSkip' = NotRead
    /\ calls' = NoCalls
    /\ todo' = <<>>
    /\ files_parquet' = {}
    /\ pq_path' = NoFile
    /\ schema' = Unbound
    /\ UNCHANGED <<bag, call, result, args, cbs, disk, gcs, bq, hist>>

Next ==
    \/ CheckArgs
    \/ CheckV4
    \/ SkipCheck
    \/ Dispatch
    \/ ToLocalBegin
    \/ TableStep
    \/ ToLocalFinish
    \/ Upload
    \/ GbqDelete
    \/ GbqCreate
    \/ GbqTables
    \/ Describe
    \/ Cleanup
    \/ MainReturn
    \/ NextRun

Spec == Init /\ [][Next]_vars

----------------------------------------------------------------------------
(* The helpers of utils.py called on their own *)

\* Largest number of full pages of a row count handed to generate_table_urls
MaxPages == 3

\* Row counts around the page boundaries, the RecordCount of 83583NED, None
RowCountsAround(v) ==
    {n \in {k * cbs_limit(v) + d : k \in 0..MaxPages, d \in {0 - 1, 0, 1}} : n >= 0}
    \cup {304128, NoCount}

UrlCalls ==
    {c \in [fn : {"generate_table_urls"},
            key : {"TypedDataSet", "Observations", "DataProperties"},
            n_records : RowCountsAround("v3") \cup RowCountsAround("v4"),
            odata_version : {"v3", "v4"}] :
        c.n_records \in RowCountsAround(c.odata_version)}

SkipCalls ==
    [fn : {"skip_dataset"}, cbs_modified : {None, "m1", "m2"},
     gcp_meta : {MetaNone, MetaDict(None, NoCount), MetaDict("m1", NoCount),
                 MetaDict("m2", NoCount)},
     force : BOOLEAN]

ProbeCalls == [fn : {"check_v4"}, third_party : BOOLEAN, probe : ProbeOutcomes]

----------------------------------------------------------------------------
(* cbsodata_to_local: column names of the parquet files (main.py 233-243) *)

\* A column name is the sequence of its characters
ColumnNames == { <<"I", "D">>, <<"o", ".", "t">>, <<"a", ".", "b", ".", "c">> }

\* The column names a parquet file can come with; {} stands for no such file
ColumnSets == { {}, {<<"I", "D">>}, {<<"I", "D">>, <<"o", ".", "t">>},
                {<<"a", ".", "b", ".", "c">>} }

ColumnKeys == {"TypedDataSet", "DataProperties", "CategoryGroups"}

\* name.replace(".", "_") buggy variant: the name is left as it is
replace_dot_keep(name) == name

\* name.replace(".", "_")
replace_dot(name) == [i \in DOMAIN name |-> IF name[i] = "." THEN "_" ELSE name[i]]

HasDot(name) == \E i \in DOMAIN name : name[i] = "."

\* main.py 233-243: the file whose path contains "DataProperties" is read,
\* its columns renamed and the file written back; no other file is touched
rename_data_properties(files) ==
    [k \in DOMAIN files |->
        IF k = "DataProperties" /\ files[k] # {}
        THEN {replace_dot(name) : name \in files[k]}
        ELSE files[k]]

RenameCalls == [fn : {"rename_columns"}, files : [ColumnKeys -> ColumnSets]]

----------------------------------------------------------------------------
(* get_metadata_cbs and get_urls with the exceptions they end in *)

\* What a discovery function ends in: the value returned (out = "dict") or
\* the class of the exception, and the number of requests sent
Returns(value, sent) == [out |-> "dict", value |-> value, requests |-> sent]
Raises(class, sent) == [out |-> class, value |-> None, requests |-> sent]

\* Exceptions raised by a raise statement of get_metadata_cbs / get_urls
RaisedErrors == {"KeyError", "ValueError"}

\* requests.get(url): a url of None has no scheme, which requests refuses
\* with MissingSchema before anything is sent
requests_get(url, body) ==
    IF url = None THEN Raises("MissingSchema", 0) ELSE Returns(body, 1)

\* get_metadata_cbs (utils.py 117-148); tables is the "value" list of the
\* catalog query (v3) or the properties document (v4)
get_metadata_cbs_outcome(third_party, version, tables) ==
    IF version = "v3"
    THEN IF tables # <<>>
         THEN IF Len(tables) = 1
              THEN Returns(tables[1], 1)
              ELSE Raises("UnboundLocalError", 1)
         ELSE Raises("KeyError", 1)
    ELSE IF version = "v4"
    THEN IF third_party THEN Raises("ValueError", 0)
         ELSE Returns(tables[1], 1)
    ELSE Raises("ValueError", 0)

\* get_urls (utils.py 1130-1152)
get_urls_outcome(third_party, version) ==
    IF version = "v4"
    THEN requests_get(IF third_party THEN None ELSE "odata4.cbs.nl/CBS", "urls")
    ELSE IF version = "v3"
    THEN requests_get(IF third_party THEN "dataderden.cbs.nl/ODataFeed"
                      ELSE "opendata.cbs.nl/ODataFeed", "urls")
    ELSE Raises("ValueError", 0)

MetaCalls ==
    {c \in [fn : {"get_metadata_cbs"}, third_party : BOOLEAN,
            odata_version : {"v3", "v4", "v5"},
            tables : {<<>>, <<"rec1">>, <<"rec1", "rec2">>, <<"rec2", "rec1">>}] :
        c.odata_version = "v4" => c.tables = <<"rec1">>}

GetUrlsCalls ==
    [fn : {"get_urls"}, third_party : BOOLEAN, odata_version : {"v3", "v4", "v5"}]

----------------------------------------------------------------------------
(* get_column_descriptions_v3: cleaning of one description (utils.py 581-587) *)

\* BigQuery's limit on a column description, and where the code cuts
DescLimit == 1023
DescCut == 1020

\* Longest description handed in, in characters above DescLimit
MaxOver == 4

\* A description is the sequence of its characters; "LF" is "\n", "CR" is "\r"
Description(n, lf, cr) ==
    [i \in 1..n |-> IF i \in lf THEN "LF" ELSE IF i \in cr THEN "CR" ELSE "a"]

DescLengths == {0, 1, 3} \cup ((DescCut - 1)..(DescLimit + MaxOver))

\* Where the line breaks of a description of n characters sit
BreakPatterns(n) ==
    {b \in { [lf |-> {}, cr |-> {}], [lf |-> {1}, cr |-> {}], [lf |-> {}, cr |-> {n}],
             [lf |-> {1}, cr |-> {2}], [lf |-> {2, n}, cr |-> {n - 1}] } :
        (b.lf \cup b.cr) \subseteq 1..n /\ b.lf \cap b.cr = {}}

Descriptions ==
    UNION { {Description(n, b.lf, b.cr) : b \in BreakPatterns(n)} : n \in DescLengths }

\* s.replace(old, "")
str_remove(s, old) == SelectSeq(s, LAMBDA c : c # old)

\* cleaning buggy variant: the length is tested before the line breaks go
clean_description_cut_first(is_str, desc) ==
    IF ~is_str THEN desc
    ELSE IF Len(desc) > DescLimit
         THEN str_remove(str_remove(SubSeq(desc, 1, DescCut), "LF"), "CR")
                  \o <<".", ".", ".">>
         ELSE str_remove(str_remove(desc, "LF"), "CR")

\* utils.py 581-587: the body of the loop over col_desc; a Description that
\* is not a string (null) raises in .replace and is left as it is
clean_description(is_str, desc) ==
    IF ~is_str THEN desc
    ELSE LET cleaned == str_remove(str_remove(desc, "LF"), "CR") IN
         IF Len(cleaned) > DescLimit
         THEN SubSeq(cleaned, 1, DescCut) \o <<".", ".", ".">>
         ELSE cleaned

CleanCalls ==
    {c \in [fn : {"clean_description"}, is_str : BOOLEAN, desc : Descriptions] :
        ~c.is_str => c.desc = <<>>}

----------------------------------------------------------------------------
(* The local directories of the runs (utils.py 1199-1209, 1376-1379,         *)
(* main.py 587-588)                                                          *)

\* Directories are paths below the temp directory, as their parts
\* create_named_dir: "{source}/{odata_version}/{id}/{YYYYMMDD}/parquet"
create_named_dir(id, version, source, date) == <<source, version, id, date, "parquet">>

\* ndjson_dir of tables_to_parquet: pq_dir.parent / "ndjson"
ndjson_dir(pq_dir) == SubSeq(pq_dir, 1, Len(pq_dir) - 1) \o <<"ndjson">>

\* Path.parents[k]
parents(path, k) == SubSeq(path, 1, Len(path) - 1 - k)

IsBelow(path, root) ==
    Len(path) >= Len(root) /\ SubSeq(path, 1, Len(root)) = root

\* rmtree(root): root and everything below it is gone
shutil_rmtree(tree, root) == {d \in tree : ~IsBelow(d, root)}

DatasetIds == {DatasetId, "84799NED"}

\* The directories a run for id on date creates
RunDirs(id, date) ==
    {create_named_dir(id, "v3", "cbs", date),
     ndjson_dir(create_named_dir(id, "v3", "cbs", date))}

\* A call of the cleanup of a run, with the directories other runs have left
CleanupCalls ==
    {c \in [fn : {"rmtree"}, id : DatasetIds, date : {PrevDate, Today},
            others : SUBSET (DatasetIds \X {PrevDate, Today})] :
        <<c.id, c.date>> \notin c.others}

InitHelpers ==
    /\ call \in UrlCalls \cup SkipCalls \cup ProbeCalls \cup RenameCalls
                \cup MetaCalls \cup GetUrlsCalls \cup CleanCalls \cup CleanupCalls
    /\ result = <<>>
    /\ bag = NoBag
    /\ args = [third_party |-> FALSE, source |-> "cbs", gcp_env |-> "dev",
               endpoint |-> "bq", force |-> FALSE]
    /\ cbs = [v4 |-> FALSE, Modified |-> None, tables |-> <<>>, empty |-> {}, n |-> 0]
    /\ run = 1
    /\ pc = "call"
    /\ odata_version = None
    /\ ret = "pending"
    /\ status = "running"
    /\ failedAt = NoStage
    /\ envFault = FALSE
    /\ atSkip = NotRead
    /\ calls = NoCalls
    /\ todo = <<>>
    /\ files_parquet = {}
    /\ pq_path = NoFile
    /\ schema = Unbound
    /\ disk = EmptyDisk
    /\ gcs = {}
    /\ bq = PriorCatalog("absent")
    /\ hist = <<>>

HelperReturns(value) ==
    /\ pc' = "returned"
    /\ result' = value
    /\ UNCHANGED <<bag, call, args, cbs, run, odata_version, ret, status, failedAt,
                   envFault, atSkip, calls, todo, files_parquet, pq_path, schema,
                   disk, gcs, bq, hist>>

\* utils.py 1212-1251
GenerateTableUrls ==
    /\ pc = "call"
    /\ call.fn = "generate_table_urls"
    /\ HelperReturns(generate_table_urls(call.key, call.n_records, call.odata_version))

\* utils.py 986-999: the skip decision of utils.cbsodata_to_gbq
UtilsSkipCheck ==
    /\ pc = "call"
    /\ call.fn = "skip_dataset"
    /\ LET cbs_modified == call.cbs_modified
           gcp_modified == get_gcp_modified(call.gcp_meta, call.force)
       IN  HelperReturns(<<IF utils_skip_dataset(cbs_modified, gcp_modified, call.force)
                           THEN "Skipped" ELSE "Processed">>)

\* utils.py 57-90
ProbeV4 ==
    /\ pc = "call"
    /\ call.fn = "check_v4"
    /\ HelperReturns(<<check_v4(call.third_party, call.probe)>>)

\* main.py 233-243
RenameColumns ==
    /\ pc = "call"
    /\ call.fn = "rename_columns"
    /\ HelperReturns(<<rename_data_properties(call.files)>>)

\* utils.py 93-148
GetMetadataCbs ==
    /\ pc = "call"
    /\ call.fn = "get_metadata_cbs"
    /\ HelperReturns(<<get_metadata_cbs_outcome(call.third_party, call.odata_version,
                                                call.tables)>>)

\* utils.py 1096-1152
GetUrls ==
    /\ pc = "call"
    /\ call.fn = "get_urls"
    /\ HelperReturns(<<get_urls_outcome(call.third_party, call.odata_version)>>)

\* utils.py 578-588
CleanDescription ==
    /\ pc = "call"
    /\ call.fn = "clean_description"
    /\ HelperReturns(<<clean_description(call.is_str, call.desc)>>)

\* main.py 410-411 / 587-588: rmtree(pq_dir.parents[1])
RemoveLocalFiles ==
    /\ pc = "call"
    /\ call.fn = "rmtree"
    /\ LET pq_dir == create_named_dir(call.id, "v3", "cbs", call.date)
           tree == RunDirs(call.id, call.date)
                       \cup UNION {RunDirs(o[1], o[2]) : o \in call.others}
       IN  HelperReturns(<<shutil_rmtree(tree, parents(pq_dir, 1))>>)

NextHelpers ==
    \/ GenerateTableUrls
    \/ UtilsSkipCheck
    \/ ProbeV4
    \/ RenameColumns
    \/ GetMetadataCbs
    \/ GetUrls
    \/ CleanDescription
    \/ RemoveLocalFiles

SpecHelpers == InitHelpers /\ [][NextHelpers]_vars

----------------------------------------------------------------------------
(* tables_to_parquet: the page fetches of one table as dask tasks            *)
(* (utils.py 1381-1386): the tasks complete in any order                     *)

\* Row counts giving 1 .. MaxPages + 1 page requests, with and without an
\* empty last page
FetchRowCounts(v) ==
    {k * cbs_limit(v) + d : k \in 0..MaxPages, d \in {0, 1}} \ {0}

FetchWorlds ==
    {w \in [v4 : BOOLEAN, Modified : {"m1"}, tables : Manifests("v3") \cup Manifests("v4"),
            empty : {{}}, n : FetchRowCounts("v3") \cup FetchRowCounts("v4")] :
        /\ w.n \in FetchRowCounts(WorldVersion(w))
        /\ w.tables = (IF w.v4 THEN <<"MeasureCodes", "Observations", "Properties">>
                       ELSE <<"CategoryGroups", "DataProperties", "TypedDataSet">>)}

FetchCalls == [fn : {"fetch_table"}, key : {"TypedDataSet", "Observations", "DataProperties"}]

InitFetch ==
    /\ cbs \in FetchWorlds
    /\ call \in FetchCalls
    /\ call.key \in {cbs.tables[i] : i \in 1..Len(cbs.tables)}
    /\ odata_version = WorldVersion(cbs)
    /\ result = <<>>
    /\ bag = NoBag
    /\ args = [third_party |-> FALSE, source |-> "cbs", gcp_env |-> "dev",
               endpoint |-> "bq", force |-> FALSE]
    /\ run = 1
    /\ pc = "call"
    /\ ret = "pending"
    /\ status = "running"
    /\ failedAt = NoStage
    /\ envFault = FALSE
    /\ atSkip = NotRead
    /\ calls = NoCalls
    /\ todo = <<>>
    /\ files_parquet = {}
    /\ pq_path = NoFile
    /\ schema = Unbound
    /\ disk = [EmptyDisk EXCEPT !.dir = TRUE]
    /\ gcs = {}
    /\ bq = PriorCatalog("absent")
    /\ hist = <<>>

\* utils.py 1350-1379: the URL list of the table; db.from_sequence(table_urls)
BagFromSequence ==
    /\ pc = "call"
    /\ call.fn = "fetch_table"
    /\ LET source_meta == get_metadata_cbs(cbs, FALSE, odata_version, FALSE)
           n == IF call.key \in MainTables
                THEN get_main_table_shape(source_meta,
                         IF odata_version = "v3" THEN "n_records" ELSE "n_observations",
                         odata_version)
                ELSE NoCount
           table_urls == generate_table_urls(call.key, n, odata_version)
       IN  bag' = [urls |-> table_urls,
                   paths |-> [i \in 1..Len(table_urls) |-> NoPath],
                   done |-> <<>>]
    /\ pc' = "fetching"
    /\ UNCHANGED <<call, result, args, cbs, run, odata_version, ret, status, failedAt,
                   envFault, atSkip, calls, todo, files_parquet, pq_path, schema,
                   disk, gcs, bq, hist>>

\* One task .map(url_to_ndjson, ndjson_folder=ndjson_dir) completes: any of
\* the pages not fetched yet
PageTask ==
    /\ pc = "fetching"
    /\ \E i \in 1..Len(bag.urls) :
         /\ \A k \in 1..Len(bag.done) : bag.done[k] # i
         /\ LET path == url_to_ndjson(bag.urls[i],
                                      PageRows(bag.urls[i], cbs, odata_version))
            IN  /\ bag' = [bag EXCEPT !.paths[i] = path, !.done = Append(@, i)]
                /\ disk' = [disk EXCEPT !.ndjson = IF path = NoPath THEN @
                                                   ELSE @ \cup {path}]
         /\ calls' = [calls EXCEPT !.fetch = @ + 1]
    /\ UNCHANGED <<call, result, args, cbs, run, pc, odata_version, ret, status,
                   failedAt, envFault, atSkip, todo, files_parquet, pq_path, schema,
                   gcs, bq, hist>>

\* .compute() buggy variant: the results come in the order the tasks finished
compute_by_arrival(b) == [k \in 1..Len(b.done) |-> b.paths[b.done[k]]]

\* .compute(): the results in the order of the sequence the bag was made from
compute(b) == [i \in 1..Len(b.urls) |-> b.paths[i]]

\* The pages convert_ndjsons_to_parquet writes into the parquet file, in the
\* order it writes them
written_pages(files) ==
    LET bad == FirstBad(files, 0) IN
    IF bad = 0 THEN files ELSE SubSeq(files, 1, bad - 1)

\* utils.py 1382-1402: .compute() hands back ndjsons_paths, which goes to
\* convert_ndjsons_to_parquet
ComputeAndConvert ==
    /\ pc = "fetching"
    /\ Len(bag.done) = Len(bag.urls)
    /\ LET ndjsons_paths == compute(bag)
           conv == convert_ndjsons_to_parquet(ndjsons_paths,
                       IF call.key = "TypedDataSet" THEN "explicit" ELSE None, 0)
       IN  /\ result' = <<[files |-> ndjsons_paths,
                           rows |-> IF AnyPath(ndjsons_paths)
                                    THEN written_pages(ndjsons_paths) ELSE <<>>,
                           ok |-> AnyPath(ndjsons_paths) => conv.ok]>>
           /\ disk' = IF AnyPath(ndjsons_paths)
                      THEN [disk EXCEPT
                              !.ndjson = @ \ conv.consumed,
                              !.pq = IF conv.wrote
                                     THEN @ \cup {FileName(args.source, odata_version,
                                                           call.key, "parquet")}
                                     ELSE @]
                      ELSE disk
    /\ pc' = "returned"
    /\ UNCHANGED <<call, bag, args, cbs, run, odata_version, ret, status, failedAt,
                   envFault, atSkip, calls, todo, files_parquet, pq_path, schema,
                   gcs, bq, hist>>

NextFetch ==
    \/ BagFromSequence
    \/ PageTask
    \/ ComputeAndConvert

SpecFetch == InitFetch /\ [][NextFetch]_vars

----------------------------------------------------------------------------
(* commands.get_odata_v4: following "@odata.nextLink" (commands.py 47-81)    *)

\* Number of pages the server holds for the table
MaxChain == 3

PageUrls == [i \in 1..MaxChain |-> <<"page", i>>]
UrlSet == {PageUrls[i] : i \in 1..MaxChain}
NoUrl == <<>>

\* Records per page
PageSizes == {0, 1, 2}

\* The "value" list of a page: its records, each named by page and position
Records(u, n) == [j \in 1..n |-> <<u[2], j>>]

\* What the server answers on each URL: the records and, if the key
\* "@odata.nextLink" is in the answer, the URL it names.  The links point
\* forward, so that every chain is finite.
Servers ==
    {s \in [UrlSet -> [size : PageSizes, hasNext : BOOLEAN, nextLink : UrlSet \cup {NoUrl}]] :
        \A u \in UrlSet :
            IF s[u].hasNext
            THEN s[u].nextLink # NoUrl /\ s[u].nextLink[2] > u[2]
            ELSE s[u].nextLink = NoUrl}

CursorCalls == [fn : {"get_odata_v4"}, server : Servers]

\* requests.get(target_url).json()
get_json(server, u) ==
    [value |-> Records(u, server[u].size), hasNext |-> server[u].hasNext,
     nextLink |-> server[u].nextLink]

\* commands.py 65-68 buggy variant: the link is never followed
next_target_none(r) == NoUrl

\* commands.py 65-68 / 76-79: the next target_url, None without the key
next_target(r) == IF r.hasNext THEN r.nextLink ELSE NoUrl

InitCursor ==
    /\ call \in CursorCalls
    /\ bag = [target_url |-> PageUrls[1], requested |-> <<>>, records |-> <<>>]
    /\ result = <<>>
    /\ args = [third_party |-> FALSE, source |-> "cbs", gcp_env |-> "dev",
               endpoint |-> "bq", force |-> FALSE]
    /\ cbs = [v4 |-> TRUE, Modified |-> None, tables |-> <<>>, empty |-> {}, n |-> 0]
    /\ run = 1
    /\ pc = "call"
    /\ odata_version = "v4"
    /\ ret = "pending"
    /\ status = "running"
    /\ failedAt = NoStage
    /\ envFault = FALSE
    /\ atSkip = NotRead
    /\ calls = NoCalls
    /\ todo = <<>>
    /\ files_parquet = {}
    /\ pq_path = NoFile
    /\ schema = Unbound
    /\ disk = EmptyDisk
    /\ gcs = {}
    /\ bq = PriorCatalog("absent")
    /\ hist = <<>>

\* commands.py 60-68: the first request
FirstPage ==
    /\ pc = "call"
    /\ call.fn = "get_odata_v4"
    /\ LET r == get_json(call.server, bag.target_url) IN
       bag' = [target_url |-> next_target(r),
               requested |-> <<bag.target_url>>,
               records |-> r.value]
    /\ pc' = "while"
    /\ UNCHANGED <<call, result, args, cbs, run, odata_version, ret, status, failedAt,
                   envFault, atSkip, calls, todo, files_parquet, pq_path, schema,
                   disk, gcs, bq, hist>>

\* commands.py 71-79: one turn of "while target_url:"
NextPage ==
    /\ pc = "while"
    /\ bag.target_url # NoUrl
    /\ LET r == get_json(call.server, bag.target_url) IN
       bag' = [target_url |-> next_target(r),
               requested |-> Append(bag.requested, bag.target_url),
               records |-> bag.records \o r.value]
    /\ UNCHANGED <<call, result, args, cbs, run, pc, odata_version, ret, status,
                   failedAt, envFault, atSkip, calls, todo, files_parquet, pq_path,
                   schema, disk, gcs, bq, hist>>

\* commands.py 71, 81: the loop ends, return bag
ReturnBag ==
    /\ pc = "while"
    /\ bag.target_url = NoUrl
    /\ result' = <<bag.records>>
    /\ pc' = "returned"
    /\ UNCHANGED <<call, bag, args, cbs, run, odata_version, ret, status, failedAt,
                   envFault, atSkip, calls, todo, files_parquet, pq_path, schema,
                   disk, gcs, bq, hist>>

NextCursor ==
    \/ FirstPage
    \/ NextPage
    \/ ReturnBag

\* The function runs on: no step of it is put off for ever
SpecCursor == InitCursor /\ [][NextCursor]_vars /\ WF_vars(NextCursor)

----------------------------------------------------------------------------
(* Properties *)

\* The call of main() in progress has ended
Returned == pc = "returned" /\ call = NoCall

\* The skip check of this call met two available, equal dates
EqualDates ==
    /\ atSkip # NotRead
    /\ Truthy(atSkip.cbs)
    /\ atSkip.cbs = atSkip.gcp

C2_utils_never_skips_unavailable ==
    (pc = "returned" /\ call.fn = "skip_dataset"
       /\ (call.cbs_modified = None \/ call.gcp_meta.kind = "None"
             \/ call.gcp_meta.Modified = None))
        => result = <<"Processed">>

\* The state C2 fails in: no Modified at the source, not forced, skipped
C2_witness_skipped_unavailable ==
    /\ pc = "returned" /\ call.fn = "skip_dataset"
    /\ call.cbs_modified = None /\ ~call.force
    /\ call.gcp_meta = MetaDict("m1", NoCount)
    /\ result = <<"Skipped">>

\* C3: a forced call is never skipped: once past the skip check it is at the
\* dispatch or beyond with no metadata read by the check, it never ends
\* Skipped, and with a valid endpoint and no failure up to there it goes on
\* to fetch; both skip functions answer "do not skip" under force for every
\* pair of dates.
C3_forced_never_skipped ==
    /\ (call = NoCall /\ args.force) =>
          /\ status # "Skipped"
          /\ (pc = "dispatch" => calls.meta = 0)
          /\ (Returned /\ status = "Done" => calls.urls > 0 /\ calls.fetch > 0)
          /\ (Returned /\ calls.urls = 0 =>
                failedAt[1] \in {"source", "check_gcp_env", "check_v4", "endpoint"})
    /\ \A sm \in {MetaRaise, MetaDict(None, 1), MetaDict("m1", 1), MetaDict("m2", 1)},
          gm \in {MetaNone, MetaDict(None, NoCount), MetaDict("m1", NoCount)} :
          /\ main_skip_dataset(TRUE, sm, gm) = "False"
          /\ ~utils_skip_dataset(sm.Modified, get_gcp_modified(gm, TRUE), TRUE)

C3_witness_forced_equal ==
    /\ Returned /\ args.force /\ status = "Done" /\ calls.fetch > 0
    /\ atSkip.cbs = "m1" /\ atSkip.gcp = "m1"

\* ceil(r / l) for r >= 0
Ceil(r, l) == (r + l - 1) \div l

\* Rows the pages of a URL list hold together, for a table of n rows
RECURSIVE SumRows(_, _, _)
SumRows(urls, n, limit) ==
    IF urls = <<>> THEN 0
    ELSE RowsFrom(Head(urls)[2], n, limit) + SumRows(Tail(urls), n, limit)

\* A call of generate_table_urls with a known row count has returned
UrlsReturned ==
    pc = "returned" /\ call.fn = "generate_table_urls" /\ call.n_records # NoCount

\* C4 as stated: for R in {0, 1, L-1, L, L+1, 3L} the number of page
\* requests generate_table_urls produces is ceil(R / L), and the pages
\* together hold exactly R rows.
C4_page_count_is_ceil ==
    LET L == cbs_limit(call.odata_version)
        R == call.n_records
    IN  (UrlsReturned /\ R \in {0, 1, L - 1, L, L + 1, 3 * L})
          => /\ Len(result) = Ceil(R, L)
             /\ SumRows(result, R, L) = R

\* The state C4 fails in: R = L gives two requests where ceil(R / L) = 1
C4_witness_extra_page ==
    /\ UrlsReturned /\ call.odata_version = "v3"
    /\ call.n_records = cbs_limit("v3")
    /\ Len(result) = 2 /\ Ceil(call.n_records, cbs_limit("v3")) = 1

\* C5: with a known row count R the result is the base URL followed by
\* R // L URLs with offsets N*L for N = 1..R // L in increasing order
\* (31 URLs for R = 304128, v3); with row count None it is the base URL alone.
C5_offset_scheme ==
    (pc = "returned" /\ call.fn = "generate_table_urls") =>
        LET L == cbs_limit(call.odata_version)
            R == call.n_records
        IN  IF R # NoCount
            THEN /\ Len(result) = 1 + (R \div L)
                 /\ result[1] = <<call.key, 0>>
                 /\ \A N \in 1..(R \div L) : result[N + 1] = <<call.key, N * L>>
                 /\ \A i, j \in 1..Len(result) : i < j => result[i][2] < result[j][2]
                 /\ (call.odata_version = "v3" /\ R = 304128 => Len(result) = 31)
            ELSE result = << <<call.key, 0>> >>

C5_witness_83583NED ==
    /\ pc = "returned" /\ call.fn = "generate_table_urls"
    /\ call.odata_version = "v3" /\ call.n_records = 304128
    /\ call.key = "TypedDataSet"
    /\ Len(result) = 31 /\ result[31] = <<"TypedDataSet", 300000>>

\* Steps of tables_to_parquet at which fetching or converting a table fails
TableFailures == {"get_schema_cbs", "fetch", "schema_unbound", "convert", "pq_path_unbound"}

\* The bucket and the catalog as they were when the current call started
AtStart == hist[Len(hist) - 1]

\* The keys of the tables the call fetches, other than key
OtherTables(key) ==
    {cbs.tables[i] : i \in 1..Len(cbs.tables)} \ (MetadataTables \cup {key})

CreatedDir ==
    \/ status = "Done"
    \/ /\ status = "Failed"
       /\ failedAt[1] \in TableFailures \cup
              {"get_column_descriptions", "upload_to_gcs", "gcs_to_gbq", "describe"}

\* C7 as stated: whenever a call has created its local directory, the
\* directory no longer exists when the call returns, on success and on
\* failure at any stage, for every endpoint.
C7_cleanup_every_exit ==
    (Returned /\ CreatedDir) => ~disk.dir

\* C7 amended: the local directory is removed exactly when a call with
\* endpoint "gcs" or "bq" runs to its end; a call that fails after creating
\* the directory, and every call with endpoint "local", leaves it in place.
C7_cleanup_only_on_success ==
    (Returned /\ CreatedDir) =>
        IF status = "Done" /\ args.endpoint \in {"gcs", "bq"}
        THEN disk = EmptyDisk
        ELSE disk.dir

C7_witness_removed ==
    /\ Returned /\ status = "Done" /\ args.endpoint = "bq"
    /\ calls.upload > 0 /\ disk = EmptyDisk

\* C8: two successive forced calls for the same dataset, the same day and
\* with the same source data: when a call has run to its end and the next
\* call meets no failing request, the next call runs to its end too and
\* leaves the bucket and the catalog exactly as the earlier call left them.
C8_forced_rerun_idempotent ==
    (call = NoCall /\ args.force) =>
        \A i \in 2..(Len(hist) - 1) :
            (hist[i].status = "Done" /\ ~hist[i + 1].envFault)
                => /\ hist[i + 1].status = "Done"
                   /\ hist[i + 1].gcs = hist[i].gcs
                   /\ hist[i + 1].bq = hist[i].bq

C8_witness_second_run ==
    /\ Returned /\ args.force /\ args.endpoint = "bq" /\ run = 2
    /\ hist[2].status = "Done" /\ status = "Done"
    /\ calls.upload > 0 /\ calls.catalog > 0
    /\ bq = hist[2].bq /\ gcs = hist[2].gcs /\ bq.tables # {}

\* C9: in gcs_to_gbq an existing catalog dataset is deleted with its
\* contents before the dataset is created, and once the tables are
\* registered the dataset holds exactly one table per parquet file name, none
\* from an earlier publication.
C9_delete_then_recreate ==
    /\ pc = "gbq_create" => (~bq.exists /\ bq.tables = {})
    /\ pc = "gbq_tables" => (bq.exists /\ bq.tables = {})
    /\ (pc \in {"describe", "cleanup", "main_return"} /\ args.endpoint = "bq")
          => (bq.exists /\ bq.tables = {TableId(nm) : nm \in files_parquet})
    /\ (Returned /\ status = "Done" /\ args.endpoint = "bq")
          => (bq.exists /\ bq.tables = {TableId(nm) : nm \in files_parquet})

C9_witness_replaced ==
    /\ Returned /\ status = "Done" /\ args.endpoint = "bq"
    /\ AtStart.bq.exists /\ <<DatasetId, "Old">> \in AtStart.bq.tables
    /\ <<DatasetId, "Old">> \notin bq.tables
    /\ <<DatasetId, "TypedDataSet">> \in bq.tables

\* C10 as stated: for a dataset that is not third-party, check_v4 returns
\* "v4" exactly when the probe answers 200 and "v3" on any other outcome of
\* the probe, a connection failure included.
C10_probe_never_fails ==
    (pc = "returned" /\ call.fn = "check_v4" /\ ~call.third_party)
        => result = <<IF call.probe = "200" THEN "v4" ELSE "v3">>

\* The state C10 fails in: the connection failure leaves check_v4 as an exception
C10_witness_connection_failure ==
    /\ pc = "returned" /\ call.fn = "check_v4" /\ ~call.third_party
    /\ call.probe = "ConnectionError" /\ result = <<Raise>>

\* C11: for a dataset flagged third_party the detection answers "v3" and
\* issues no request: the call never fails at check_v4, has made no probe,
\* and once past check_v4 its odata_version is "v3"; check_v4 answers "v3"
\* whatever a probe would have met.
C11_third_party_v3_no_probe ==
    /\ (call = NoCall /\ args.third_party) =>
          /\ calls.probe = 0
          /\ failedAt[1] # "check_v4"
          /\ (pc \notin {"main", "check_v4"} /\ failedAt[1] \notin {"source", "check_gcp_env"}
                => odata_version = "v3")
    /\ \A probe \in ProbeOutcomes : check_v4(TRUE, probe) = "v3"

C11_witness_third_party_done ==
    /\ Returned /\ args.third_party /\ args.source = "iv3" /\ status = "Done"
    /\ odata_version = "v3" /\ calls.probe = 0 /\ calls.fetch > 0

\* The column renaming of cbsodata_to_local has been applied
Renamed == pc = "returned" /\ call.fn = "rename_columns"

SiblingFiles ==
    {FileName(args.source, odata_version, k, "parquet") :
        k \in {cbs.tables[i] : i \in 1..Len(cbs.tables)} \ (MetadataTables \cup cbs.empty)}

\* C13 as stated: a table whose single page has an empty value list gives no
\* parquet file and no error, wherever it sits in the iteration order, and
\* the files of the sibling tables are those of a run without that table.
C13_empty_table_harmless ==
    (Returned /\ cbs.empty # {}) =>
        \A e \in cbs.empty :
            /\ failedAt # <<"pq_path_unbound", e>>
            /\ FileName(args.source, odata_version, e, "parquet") \notin files_parquet
            /\ (status = "Done" => files_parquet = SiblingFiles)

\* The state C13 fails in: the empty table is the first of the loop and
\* "if pq_path:" reads a variable no iteration has assigned
C13_witness_empty_first ==
    /\ Returned /\ cbs.empty = {"CategoryGroups"}
    /\ Head(FetchedKeys(cbs.tables)) = "CategoryGroups"
    /\ failedAt = <<"pq_path_unbound", "CategoryGroups">>
    /\ status = "Failed" /\ ~envFault /\ files_parquet = {}

\* Page requests a table gets: the main table by its row count, any other one
PlannedPages(k) ==
    IF k \in MainTables THEN 1 + (cbs.n \div cbs_limit(odata_version)) ELSE 1

RECURSIVE SumPages(_)
SumPages(keys) ==
    IF keys = <<>> THEN 0 ELSE PlannedPages(Head(keys)) + SumPages(Tail(keys))

\* The listed tables that are not metadata-only, in manifest order
ListedData ==
    SelectSeq(cbs.tables, LAMBDA k : k \notin {"Properties", "TableInfos", "UntypedDataSet"})

\* The call is inside or past the loop of tables_to_parquet and has not failed
InPipeline ==
    /\ call = NoCall
    /\ \/ pc \in {"tables", "finish_local", "upload", "gbq_check", "gbq_create",
                  "gbq_tables", "describe", "cleanup", "main_return"}
       \/ pc = "returned" /\ status = "Done"

\* C14: tables_to_parquet requests no page and produces no file for
\* Properties, TableInfos and UntypedDataSet and processes every other listed
\* table in manifest order; only the main table's requests follow the row
\* count, every other table gets one request (also counted when the table's
\* conversion then fails).
C14_metadata_tables_not_fetched ==
    /\ call = NoCall =>
          \A k \in {"Properties", "TableInfos", "UntypedDataSet"} :
             /\ \A i \in 1..Len(todo) : todo[i] # k
             /\ \A f \in files_parquet \cup disk.pq : f.idkey[2] # k
             /\ \A p \in disk.ndjson : p[1] # k
    /\ InPipeline =>
          LET processed == SubSeq(ListedData, 1, Len(ListedData) - Len(todo)) IN
          /\ Len(todo) <= Len(ListedData)
          /\ processed \o todo = ListedData
          /\ calls.fetch = SumPages(processed)
    /\ (InPipeline /\ pc = "returned") => todo = <<>>
    /\ (Returned /\ failedAt[1] \in {"fetch", "schema_unbound", "convert", "pq_path_unbound"})
          => /\ todo # <<>> /\ Head(todo) = failedAt[2]
             /\ calls.fetch =
                   SumPages(SubSeq(ListedData, 1, Len(ListedData) - Len(todo)))
                   + PlannedPages(Head(todo))

C14_witness_metadata_left_out ==
    /\ Returned /\ status = "Done" /\ odata_version = "v3"
    /\ Len(cbs.tables) = 5 /\ cbs.tables[1] = "TableInfos" /\ cbs.empty = {}
    /\ calls.fetch = 3 /\ Cardinality(files_parquet) = 3

\* What main returns for a skipped dataset (main.py 754)
SkippedValue == None

UploadSteps == {"upload"}
CatalogSteps == {"gbq_check", "gbq_create", "gbq_tables", "describe"}

\* C16 as stated, last part: a call with an endpoint other than "local",
\* "gcs" and "bq" is rejected with an error and fetches no table.
C16_other_endpoint_rejected ==
    (Returned /\ args.endpoint \notin {"local", "gcs", "bq"})
        => (status = "Failed" /\ calls.urls = 0 /\ calls.fetch = 0)

\* C16 amended: with endpoint "local" nothing is uploaded and no catalog
\* operation happens; with "gcs" the files are uploaded and no catalog
\* operation happens; with "bq" a completed call has uploaded, registered the
\* tables and (v3) described the main table; with any other endpoint no table
\* is fetched and nothing is uploaded or registered, and the call ends with
\* the endpoint error unless an earlier check failed or the skip check, which
\* comes first, ended it as Skipped.
C16_endpoint_selects_extent ==
    call = NoCall =>
        /\ args.endpoint = "local" =>
              /\ calls.upload = 0 /\ calls.catalog = 0
              /\ pc \notin UploadSteps \cup CatalogSteps \cup {"cleanup"}
              /\ (pc = "returned" => (gcs = AtStart.gcs /\ bq = AtStart.bq))
        /\ args.endpoint = "gcs" =>
              /\ calls.catalog = 0
              /\ pc \notin CatalogSteps
              /\ (pc = "returned" => bq = AtStart.bq)
              /\ (pc = "returned" /\ status = "Done" =>
                     /\ calls.upload > 0
                     /\ \A f \in files_parquet :
                           \E b \in gcs : b.name = f
                                /\ b.folder = GcsFolder(args.source, odata_version))
        /\ args.endpoint = "bq" =>
              (pc = "returned" /\ status = "Done" =>
                     /\ calls.upload > 0 /\ calls.catalog > 0
                     /\ bq.exists /\ bq.tables # {}
                     /\ (odata_version = "v3" =>
                            <<DatasetId, "TypedDataSet">> \in bq.described)
                     /\ (odata_version = "v4" => bq.described = {}))
        /\ args.endpoint \notin {"local", "gcs", "bq"} =>
              /\ calls.urls = 0 /\ calls.fetch = 0
              /\ calls.upload = 0 /\ calls.catalog = 0
              /\ pc \notin {"to_local", "tables", "finish_local", "main_return"}
                       \cup UploadSteps \cup CatalogSteps \cup {"cleanup"}
              /\ (pc = "returned" =>
                     \/ status = "Skipped"
                     \/ status = "Failed" /\ failedAt[1] \in
                            {"source", "check_gcp_env", "check_v4", "endpoint"})

C16_witness_gcs_only ==
    /\ Returned /\ status = "Done" /\ args.endpoint = "gcs"
    /\ calls.upload > 0 /\ calls.catalog = 0 /\ bq = AtStart.bq /\ gcs # AtStart.gcs

\* C17 as stated: the v3 lookup of get_metadata_cbs fails with the
\* not-found error for zero records, raises an error of its own for more
\* than one record and never returns a record then, and returns the record
\* when there is exactly one.
C17_lookup_errors ==
    (pc = "returned" /\ call.fn = "get_metadata_cbs" /\ call.odata_version = "v3")
        => LET r == result[1] IN
           /\ Len(call.tables) = 0 => r.out = "KeyError"
           /\ Len(call.tables) = 1 => (r.out = "dict" /\ r.value = call.tables[1])
           /\ Len(call.tables) > 1 =>
                 (r.out \in RaisedErrors \ {"KeyError"} /\ r.value = None)

\* The state C17 fails in: two records, and the return of a variable that
\* was never assigned
C17_witness_unbound_meta ==
    /\ pc = "returned" /\ call.fn = "get_metadata_cbs" /\ call.odata_version = "v3"
    /\ call.tables = <<"rec1", "rec2">>
    /\ result[1].out = "UnboundLocalError" /\ result[1].value = None

\* C18 as stated: get_metadata_cbs and get_urls called with third_party and
\* "v4" both fail with the ValueError raised for that combination, before
\* any request is sent.
C18_third_party_v4_rejected ==
    (pc = "returned" /\ call.fn \in {"get_metadata_cbs", "get_urls"}
       /\ call.third_party /\ call.odata_version = "v4")
        => (result[1].out = "ValueError" /\ result[1].requests = 0)

\* The state C18 fails in: get_urls hands None to requests.get
C18_witness_get_urls_no_check ==
    /\ pc = "returned" /\ call.fn = "get_urls"
    /\ call.third_party /\ call.odata_version = "v4"
    /\ result[1].out = "MissingSchema" /\ result[1].requests = 0

\* The source/third_party pairs the docstring of main allows
ValidSource == (args.third_party <=> args.source # "cbs")

\* The call has issued no request of any kind
NoWork == calls = NoCalls

\* C19 as stated: a call whose source/third_party pair breaks the rule in
\* either direction (third_party false with a source other than "cbs";
\* third_party true with source "cbs") is rejected and performs no probe,
\* fetch, upload or catalog operation.
C19_source_checked_both_ways ==
    (call = NoCall /\ ~ValidSource)
        => /\ NoWork
           /\ pc \in {"main", "returned"}
           /\ (pc = "returned" => (status = "Failed" /\ failedAt[1] = "source"))

\* The state C19 fails in: not third-party, source "iv3", published all the same
C19_witness_wrong_source_done ==
    /\ Returned /\ ~args.third_party /\ args.source = "iv3"
    /\ status = "Done" /\ args.endpoint = "bq"
    /\ calls.probe > 0 /\ calls.fetch > 0 /\ calls.upload > 0 /\ calls.catalog > 0

\* Values of gcp_env, permitted and not
EnvValues == {"dev", "test", "prod", "foo", "DEV", "Test", "PROD", "", "development"}

\* C20: check_gcp_env returns True for dev, test and prod and raises
\* ValueError for every other value; a call of main whose tier (gcp_env,
\* which main lower-cases first) is outside that set ends at check_gcp_env
\* with no probe, fetch, upload or catalog operation, and a call whose tier
\* is inside never fails there.
C20_gcp_env_checked ==
    /\ \A e \in EnvValues :
          check_gcp_env(e) = (IF e \in {"dev", "test", "prod"} THEN "True" ELSE Raise)
    /\ (call = NoCall /\ lower(args.gcp_env) \notin {"dev", "test", "prod"}) =>
          /\ NoWork
          /\ pc \in {"main", "returned"}
          /\ (pc = "returned" =>
                (status = "Failed" /\ failedAt[1] \in {"source", "check_gcp_env"}))
    /\ (call = NoCall /\ lower(args.gcp_env) \in {"dev", "test", "prod"}) =>
          failedAt[1] # "check_gcp_env"

C20_witness_bad_tier ==
    /\ Returned /\ args.gcp_env = "foo" /\ ~args.third_party
    /\ status = "Failed" /\ failedAt[1] = "check_gcp_env" /\ NoWork /\ ret = None

\* The bucket and the catalog as they were when the call in progress started
RunStart == IF pc = "returned" THEN hist[Len(hist) - 1] ELSE hist[Len(hist)]

\* upload_to_gcs has returned and the local directory is still as it was listed
AfterUpload ==
    /\ call = NoCall
    /\ pc \in {"gbq_check", "gbq_create", "gbq_tables", "describe", "cleanup"}

\* C21: once upload_to_gcs has returned the prefix
\* {source}/{odata_version}/{id}/{YYYYMMDD}, every file of the output
\* directory has a blob of its own name under that prefix holding the file's
\* content, one upload was made per file, and the call has added or replaced
\* no blob other than those: the names uploaded are the names in the
\* directory, all under the one prefix.
C21_upload_one_prefix ==
    AfterUpload =>
        LET folder == GcsFolder(args.source, odata_version)
            names == disk.pq
        IN  /\ folder = <<args.source, odata_version, DatasetId, Today>>
            /\ \A f \in names :
                  \E b \in gcs : b.folder = folder /\ b.name = f
                                 /\ b.content = FileContent(f, cbs)
            /\ calls.upload = Cardinality(names)
            /\ \A b \in gcs \ RunStart.gcs : b.folder = folder /\ b.name \in names
            /\ \A b \in RunStart.gcs \ gcs : b.folder = folder /\ b.name \in names
            /\ {b.name : b \in {x \in gcs : x.folder = folder}} \ names
                  \subseteq {b.name : b \in RunStart.gcs}

C21_witness_uploaded ==
    /\ AfterUpload /\ pc = "gbq_check" /\ odata_version = "v3"
    /\ Cardinality(disk.pq) = 5 /\ calls.upload = 5
    /\ Cardinality({b \in gcs : b.folder = GcsFolder(args.source, odata_version)}) = 5
    /\ RunStart.gcs # {} /\ RunStart.gcs \subseteq gcs

\* cbsodata_to_local has returned and the local directory has not been removed
LocalWritten ==
    /\ call = NoCall
    /\ \/ pc \in UploadSteps \cup CatalogSteps \cup {"cleanup"}
       \/ pc = "main_return" /\ args.endpoint = "local"

\* The call has run to its end and has published to the bucket
Published == Returned /\ status = "Done" /\ args.endpoint \in {"gcs", "bq"}

ColDescriptionsFile == FileName(args.source, odata_version, "ColDescriptions", "json")
MetadataFile == FileName(args.source, odata_version, "Metadata", "json")

\* C22 as stated: every published run writes the _Metadata.json file next to
\* the parquet files, and a _ColDescriptions.json file is written for a v3
\* dataset only, never for v4.
C22_col_descriptions_v3_only ==
    /\ LocalWritten =>
          /\ MetadataFile \in disk.pq
          /\ (ColDescriptionsFile \in disk.pq <=> odata_version = "v3")
    /\ Published =>
          \A b \in gcs \ AtStart.gcs : b.name = ColDescriptionsFile => odata_version = "v3"

\* C22 amended: every run that gets past cbsodata_to_local has written both
\* the _Metadata.json and the _ColDescriptions.json file next to the parquet
\* files, for v3 and v4 alike, and a published run has uploaded both; for v4
\* the _ColDescriptions.json file holds null.
C22_sidecars_every_version ==
    /\ LocalWritten => (MetadataFile \in disk.pq /\ ColDescriptionsFile \in disk.pq)
    /\ Published =>
          LET folder == GcsFolder(args.source, odata_version) IN
          /\ [folder |-> folder, name |-> MetadataFile, content |-> cbs.Modified] \in gcs
          /\ [folder |-> folder, name |-> ColDescriptionsFile,
              content |-> IF odata_version = "v4" THEN "null" ELSE "data"] \in gcs

C22_witness_v4_null_file ==
    /\ Published /\ odata_version = "v4" /\ args.endpoint = "gcs"
    /\ [folder |-> GcsFolder(args.source, "v4"), name |-> ColDescriptionsFile,
        content |-> "null"] \in gcs
    /\ ~(\E b \in AtStart.gcs : b.name = ColDescriptionsFile)

\* The characters of a description that are not line breaks, in order
Stripped(s) == SelectSeq(s, LAMBDA c : c \notin {"LF", "CR"})

EndsWithMarker(s) ==
    Len(s) >= 3 /\ SubSeq(s, Len(s) - 2, Len(s)) = <<".", ".", ".">>

\* C23: for every description string the stored result holds no newline and
\* no carriage return and is at most 1023 characters long; a description
\* whose cleaned length is above 1023 is cut (to its first 1020 cleaned
\* characters) and ends with "...", and one whose cleaned length is at most
\* 1023 is kept as it is apart from the line breaks taken out.
C23_description_cleaned ==
    (pc = "returned" /\ call.fn = "clean_description" /\ call.is_str) =>
        LET r == result[1]
            cleaned == Stripped(call.desc)
        IN  /\ \A i \in 1..Len(r) : r[i] \notin {"LF", "CR"}
            /\ Len(r) <= 1023
            /\ IF Len(cleaned) > 1023
               THEN /\ EndsWithMarker(r)
                    /\ Len(r) < Len(cleaned)
                    /\ SubSeq(r, 1, Len(r) - 3) = SubSeq(cleaned, 1, Len(r) - 3)
               ELSE r = cleaned

C23_witness_cut ==
    /\ pc = "returned" /\ call.fn = "clean_description" /\ call.is_str
    /\ Len(call.desc) = 1027 /\ call.desc[1] = "a" /\ call.desc[2] = "LF"
    /\ Len(Stripped(call.desc)) = 1024
    /\ Len(result[1]) = 1023 /\ EndsWithMarker(result[1])

\* The steps of one call of main with endpoint "bq", in the order of the code
StageOrder ==
    <<"main", "check_v4", "skip_dataset", "dispatch", "to_local", "tables",
      "finish_local", "upload", "gbq_check", "gbq_create", "gbq_tables", "describe",
      "cleanup", "main_return", "returned">>

Rank(p) == CHOOSE i \in 1..Len(StageOrder) : StageOrder[i] = p

\* What has and has not happened at each step of a call with endpoint "bq"
StageInvariant ==
    (call = NoCall /\ args.endpoint = "bq") =>
        /\ pc \in {"main", "check_v4"} => calls = NoCalls
        /\ pc = "skip_dataset" =>
              /\ odata_version \in {"v3", "v4"} /\ atSkip = NotRead
              /\ calls.meta = 0 /\ calls.urls = 0 /\ calls.fetch = 0
        /\ pc \in {"dispatch", "to_local"} =>
              /\ atSkip # NotRead
              /\ calls.urls = 0 /\ calls.fetch = 0
        /\ pc \in {"tables", "finish_local", "upload"} =>
              /\ calls.upload = 0 /\ calls.catalog = 0
              /\ gcs = RunStart.gcs /\ bq = RunStart.bq
        /\ pc \in {"finish_local", "upload"} =>
              /\ todo = <<>> /\ calls.fetch > 0
              /\ files_parquet = SiblingFiles /\ files_parquet \subseteq disk.pq
        /\ pc \in CatalogSteps => calls.upload = Cardinality(disk.pq) /\ calls.upload > 0
        /\ pc = "gbq_check" => calls.catalog = 0 /\ bq = RunStart.bq
        /\ pc \in {"gbq_create", "gbq_tables"} => bq.tables = {} /\ bq.described = {}
        /\ pc = "describe" =>
              /\ bq.tables = {TableId(nm) : nm \in files_parquet} /\ bq.tables # {}
              /\ bq.described = {}
        /\ pc = "cleanup" =>
              /\ disk.dir /\ disk.pq # {}
              /\ (odata_version = "v3" => <<DatasetId, "TypedDataSet">> \in bq.described)
        /\ pc = "main_return" => disk = EmptyDisk
        /\ (pc = "returned" /\ status = "Done") => disk = EmptyDisk

\* One step of a call with endpoint "bq": it moves forward in StageOrder, the
\* loop over the tables apart, where the list of tables left gets shorter;
\* after the cleanup nothing is touched any more
StageStep ==
    (call = NoCall /\ args.endpoint = "bq" /\ pc # "returned") =>
        /\ \/ Rank(pc') > Rank(pc)
           \/ pc = "tables" /\ pc' = "tables" /\ Len(todo') < Len(todo)
        /\ pc = "main_return" =>
              (pc' = "returned" /\ UNCHANGED <<disk, gcs, bq, calls>>)
        /\ pc = "cleanup" => pc' = "main_return"

\* C24: in a call with endpoint "bq" that is not skipped, the detection of
\* the protocol comes before the skip check and the skip check before any
\* table fetch; all tables are converted before the first upload, all files
\* uploaded before the registration in the catalog, the tables registered
\* before the columns are described, the local cleanup comes last, and no
\* step is taken twice in one call.
C24_stage_order == [](StageInvariant) /\ [][StageStep]_vars

C24_witness_all_stages ==
    /\ Returned /\ status = "Done" /\ args.endpoint = "bq" /\ odata_version = "v3"
    /\ ~args.force /\ atSkip # NotRead
    /\ calls.probe = 1 /\ calls.meta = 2 /\ calls.urls = 1 /\ calls.fetch > 0
    /\ calls.upload > 0 /\ calls.catalog > 0
    /\ <<DatasetId, "TypedDataSet">> \in bq.described /\ disk = EmptyDisk

\* The parquet file of a table of the call
ParquetOf(key) == FileName(args.source, odata_version, key, "parquet")

\* C25 as stated, for a call that starts with an empty local directory:
\* after a successful conversion every staged page file of the table is
\* gone and the table has its one parquet file; after a conversion error on
\* any page no parquet file of that table is on disk and the call fails.
C25_conversion_all_or_nothing ==
    (call = NoCall /\ run = 1) =>
        /\ pc \in {"tables", "finish_local"} =>
              /\ disk.ndjson = {}
              /\ files_parquet \subseteq disk.pq
              /\ \A f \in disk.pq : f.ext = "parquet" => f \in files_parquet
        /\ (pc = "returned" /\ failedAt[1] = "convert") =>
              /\ status = "Failed"
              /\ ParquetOf(failedAt[2]) \notin disk.pq

\* The state C25 fails in: the page does not parse, the ParquetWriter has
\* already created the file, and nothing removes it
C25_witness_partial_file ==
    /\ Returned /\ run = 1 /\ failedAt = <<"convert", "TypedDataSet">> /\ envFault
    /\ cbs.n = 1 /\ status = "Failed"
    /\ ParquetOf("TypedDataSet") \in disk.pq
    /\ ParquetOf("TypedDataSet") \notin files_parquet
    /\ <<"TypedDataSet", 0>> \in disk.ndjson

\* The rest of C25: the success path, and the propagation of the error
C25_success_path ==
    (call = NoCall /\ run = 1) =>
        /\ pc \in {"tables", "finish_local"} =>
              /\ disk.ndjson = {}
              /\ files_parquet \subseteq disk.pq
              /\ \A f \in disk.pq : f.ext = "parquet" => f \in files_parquet
        /\ (pc = "returned" /\ failedAt[1] = "convert") =>
              /\ status = "Failed" /\ ret = None
              /\ ParquetOf(failedAt[2]) \notin files_parquet

\* The page plan of the main table ends in a page with no records: the row
\* count is an exact multiple of the page limit
EmptyLastPage == cbs.n > 0 /\ cbs.n % cbs_limit(WorldVersion(cbs)) = 0

\* C26 as stated: for a main table whose page plan holds a page with no
\* records, fetching and converting the table succeed: the call never fails
\* in the conversion of the main table unless a request or a page failed.
C26_empty_page_is_normal ==
    (call = NoCall /\ EmptyLastPage) =>
        ~(failedAt[1] = "convert" /\ failedAt[2] \in MainTables /\ ~envFault)

\* The state C26 fails in: the empty last page came back as None, the
\* converter wrote the first page and raised on the None
C26_witness_none_page ==
    /\ Returned /\ EmptyLastPage /\ odata_version = "v3" /\ cbs.n = 10000
    /\ failedAt = <<"convert", "TypedDataSet">> /\ ~envFault
    /\ status = "Failed" /\ ret = None
    /\ ParquetOf("TypedDataSet") \in disk.pq
    /\ <<"TypedDataSet", 0>> \notin disk.ndjson

\* The table the loop of tables_to_parquet has dealt with last
LastProcessed == ListedData[Len(ListedData) - Len(todo)]

\* C27 as stated: the v3 main table is converted with the explicit schema,
\* every other table, the v4 main table included, with the schema inferred
\* from its own first page (schema None handed to the converter), wherever
\* the main table sits in the iteration order; the conversion never reads a
\* schema no iteration has set.
C27_schema_choice ==
    call = NoCall =>
        /\ failedAt[1] # "schema_unbound"
        /\ (pc \in {"tables", "finish_local"} /\ Len(todo) < Len(ListedData)) =>
              schema = (IF LastProcessed = "TypedDataSet" /\ odata_version = "v3"
                        THEN "explicit" ELSE None)

\* The state C27 fails in: the v4 main table is the first of the loop and
\* schema=schema reads a variable that was never assigned
C27_witness_v4_main_first ==
    /\ Returned /\ odata_version = "v4"
    /\ Head(FetchedKeys(cbs.tables)) = "Observations"
    /\ failedAt = <<"schema_unbound", "Observations">>
    /\ status = "Failed" /\ ~envFault /\ files_parquet = {} /\ calls.fetch > 0

\* The page file each URL of the bag is written to, by position in the URL list
PageFiles ==
    [i \in 1..Len(bag.urls) |->
        url_to_ndjson(bag.urls[i], PageRows(bag.urls[i], cbs, odata_version))]

\* C28: whatever order the page fetches of a table complete in, the list of
\* page files handed to the converter follows the generated URL list (page
\* index), every page with records is written to a file of its own, no two
\* URLs of the table share a file name, and the rows are written into the
\* parquet file in that order.
C28_order_by_page_index ==
    /\ (call.fn = "fetch_table" /\ pc = "fetching") =>
          /\ Cardinality(disk.ndjson)
                = Cardinality({k \in 1..Len(bag.done) : PageFiles[bag.done[k]] # NoPath})
          /\ \A i, j \in 1..Len(bag.urls) :
                (i < j /\ PageFiles[i] # NoPath /\ PageFiles[j] # NoPath)
                    => PageFiles[i][2] < PageFiles[j][2]
    /\ (call.fn = "fetch_table" /\ pc = "returned") =>
          LET files == result[1].files IN
          /\ Len(files) = Len(bag.urls)
          /\ files = PageFiles
          /\ \A i \in 1..Len(files) :
                files[i] # NoPath =>
                    files[i] = <<call.key, bag.urls[i][2] \div 10000>>
          /\ \A i, j \in 1..Len(result[1].rows) :
                i < j => result[1].rows[i][2] < result[1].rows[j][2]
          /\ \A i \in 1..Len(result[1].rows) : result[1].rows[i] = files[i]

C28_witness_out_of_order ==
    /\ call.fn = "fetch_table" /\ pc = "returned" /\ call.key = "TypedDataSet"
    /\ Len(bag.urls) = 4 /\ bag.done = <<3, 1, 4, 2>>
    /\ result[1].ok
    /\ result[1].files = << <<"TypedDataSet", 0>>, <<"TypedDataSet", 1>>,
                            <<"TypedDataSet", 2>>, <<"TypedDataSet", 3>> >>
    /\ result[1].rows = result[1].files

\* The chain of pages the links of a server lead through from a URL
RECURSIVE ChainFrom(_, _)
ChainFrom(server, u) ==
    IF server[u].hasNext
    THEN <<u>> \o ChainFrom(server, server[u].nextLink)
    ELSE <<u>>

\* The records of the pages of a chain, in chain order
RECURSIVE ChainRecords(_, _)
ChainRecords(server, chain) ==
    IF chain = <<>> THEN <<>>
    ELSE Records(Head(chain), server[Head(chain)].size)
             \o ChainRecords(server, Tail(chain))

\* What get_odata_v4 has requested and gathered so far follows the chain
CursorFollowsChain ==
    call.fn = "get_odata_v4" =>
        LET chain == ChainFrom(call.server, PageUrls[1]) IN
        /\ Len(bag.requested) <= Len(chain)
        /\ bag.requested = SubSeq(chain, 1, Len(bag.requested))
        /\ \A i, j \in 1..Len(bag.requested) : i # j => bag.requested[i] # bag.requested[j]
        /\ bag.records = ChainRecords(call.server, bag.requested)
        /\ pc = "returned" =>
              /\ bag.requested = chain
              /\ ~call.server[chain[Len(chain)]].hasNext
              /\ \A i \in 1..(Len(chain) - 1) : call.server[chain[i]].hasNext
              /\ result = <<ChainRecords(call.server, chain)>>

\* C29: get_odata_v4 requests the first page and then each page the previous
\* page's "@odata.nextLink" names, stops at the first page without that
\* key, requests each page of the chain once and returns the records of all
\* pages in chain order; for every finite chain it returns.
C29_cursor_following == [](CursorFollowsChain) /\ <>(pc = "returned")

C29_witness_three_pages ==
    /\ call.fn = "get_odata_v4" /\ pc = "returned"
    /\ bag.requested = <<PageUrls[1], PageUrls[2], PageUrls[3]>>
    /\ call.server[PageUrls[1]].size = 2 /\ call.server[PageUrls[2]].size = 0
    /\ call.server[PageUrls[3]].size = 1
    /\ result = << << <<1, 1>>, <<1, 2>>, <<3, 1>> >> >>

\* The cleanup of a run has been carried out
CleanedUp == pc = "returned" /\ call.fn = "rmtree"

\* C30 as stated: the directory a run creates is named by dataset id and run
\* date, and the cleanup of the run removes that run's directories only:
\* the directories of a run for another dataset id, and those of a run of
\* the same dataset id with another run date, are still there afterwards.
C30_cleanup_own_directory_only ==
    CleanedUp =>
        /\ \A o \in DatasetIds \X {PrevDate, Today} :
              o # <<call.id, call.date>> =>
                  RunDirs(o[1], o[2]) \cap RunDirs(call.id, call.date) = {}
        /\ RunDirs(call.id, call.date) \cap result[1] = {}
        /\ \A o \in call.others : RunDirs(o[1], o[2]) \subseteq result[1]

\* The state C30 fails in: the directories the same dataset got on an
\* earlier date are gone with the run's own
C30_witness_other_date_removed ==
    /\ CleanedUp /\ call.id = DatasetId /\ call.date = Today
    /\ call.others = {<<DatasetId, PrevDate>>, <<"84799NED", Today>>}
    /\ RunDirs(DatasetId, PrevDate) \cap result[1] = {}
    /\ RunDirs("84799NED", Today) \subseteq result[1]

\* The rest of C30: the directories of other dataset ids are never removed
C30_other_ids_kept ==
    CleanedUp =>
        /\ RunDirs(call.id, call.date) \cap result[1] = {}
        /\ \A o \in call.others : o[1] # call.id => RunDirs(o[1], o[2]) \subseteq result[1]
        /\ \A o \in call.others : o[1] = call.id => RunDirs(o[1], o[2]) \cap result[1] = {}

====
